---- MODULE Spec2Model ----
(***************************************************************************)
(* Real Estate Property Listings Analysis (real_estate_analysis_optimized  *)
(* .py): the dataset generator create_dataset(), the five analysis steps   *)
(* co1_analysis .. co5_analysis and main().                                *)
(*                                                                         *)
(* Numbers.  Python floats are modelled as exact decimal fixed-point       *)
(* values; binary representation error (about 1e-16 relative) is not       *)
(* modelled, decimal rounding by round(x, k) is.  Units:                   *)
(*   area        1e-5 square feet          (Area_SqFt stored: 1e-2)        *)
(*   factor      1e-4                      (uniform(0.85, 1.15))           *)
(*   rate        1e-6 dollars per sq ft    (Price_Per_SqFt stored: 1e-2)   *)
(*   price       1e-11 dollars, a Big      (Price stored: cents)           *)
(*   latitude    1e-4 degrees                                              *)
(* TLC integers are 32 bit, so products beyond 2^31 are carried in Big:    *)
(* little-endian sequences of base-10000 limbs.                            *)
(***************************************************************************)
EXTENDS Integers, Sequences, FiniteSets, TLC

VARIABLES
    stream,     \* raw output sequence of numpy's global generator after seed(42)
    rng,        \* state of the global generator: its position on that sequence
    dirExists,  \* whether the directory output/ exists
    pc,         \* position of the run: import, main's steps, done or failed
    df,         \* the DataFrame main() holds: [columns, rows]
    output,     \* the files written under output/, in the order written
    returned    \* the calls of create_dataset() so far: the generator state each
                \* was made at and the table it returned

vars == <<stream, rng, dirExists, pc, df, output, returned>>

(***************************************************************************)
(* Bounds                                                                  *)
(***************************************************************************)
\* number of records generated (the source generates 500)
n == 2
\* how many raw draws other code may take from the global generator
MaxConsumed == 2
\* how many times create_dataset() is called in SpecCalls
MaxCalls == 2

(***************************************************************************)
(* Exact arithmetic                                                        *)
(***************************************************************************)
Base == 100 * 100

Max(a, b) == IF a >= b THEN a ELSE b

Pow10(k) == CASE k = 0 -> 1 [] k = 1 -> 10 [] k = 2 -> 100 [] k = 3 -> 1000

\* Python int(x) for x = num/den, den > 0: truncation toward zero
PyInt(num, den) == IF num >= 0 THEN num \div den ELSE -((-num) \div den)

\* Python round(): nearest, ties to even, of num/den with den > 0
RoundHalfEven(num, den) ==
    LET q == num \div den
        r == num % den
    IN  IF 2 * r < den THEN q
        ELSE IF 2 * r > den THEN q + 1
        ELSE IF q % 2 = 0 THEN q ELSE q + 1

RECURSIVE ToBig(_)
ToBig(x) == IF x < Base THEN <<x>> ELSE <<x % Base>> \o ToBig(x \div Base)

RECURSIVE BigToInt(_)
BigToInt(b) == IF b = <<>> THEN 0 ELSE b[1] + Base * BigToInt(Tail(b))

RECURSIVE Normalize(_)
Normalize(b) ==
    IF Len(b) > 1 /\ b[Len(b)] = 0 THEN Normalize(SubSeq(b, 1, Len(b) - 1)) ELSE b

RECURSIVE MulCarry(_, _, _)
MulCarry(b, m, c) ==
    IF b = <<>> THEN (IF c = 0 THEN <<>> ELSE ToBig(c))
    ELSE LET t == b[1] * m + c
         IN  <<t % Base>> \o MulCarry(Tail(b), m, t \div Base)

\* b * m for 0 <= m <= 200000
BigMul(b, m) == Normalize(MulCarry(b, m, 0))

RECURSIVE AddCarry(_, _, _)
AddCarry(a, b, c) ==
    IF a = <<>> /\ b = <<>> THEN (IF c = 0 THEN <<>> ELSE <<c>>)
    ELSE LET x == IF a = <<>> THEN 0 ELSE a[1]
             y == IF b = <<>> THEN 0 ELSE b[1]
             t == x + y + c
         IN  <<t % Base>> \o AddCarry(IF a = <<>> THEN a ELSE Tail(a),
                                      IF b = <<>> THEN b ELSE Tail(b),
                                      t \div Base)

BigAdd(a, b) == Normalize(AddCarry(a, b, 0))

RECURSIVE LessFromTop(_, _, _)
LessFromTop(a, b, i) ==
    IF i = 0 THEN FALSE
    ELSE IF a[i] # b[i] THEN a[i] < b[i]
    ELSE LessFromTop(a, b, i - 1)

BigLess(a, b) ==
    LET x == Normalize(a)
        y == Normalize(b)
    IN  IF Len(x) # Len(y) THEN Len(x) < Len(y) ELSE LessFromTop(x, y, Len(x))

BigLeq(a, b) == ~BigLess(b, a)

RECURSIVE BigTimes(_, _)
BigTimes(a, b) ==
    IF b = <<>> THEN <<0>>
    ELSE BigAdd(BigMul(a, b[1]), <<0>> \o BigTimes(a, Tail(b)))

\* 10^k as a Big
BigPow10(k) == [i \in 1..(k \div 4) |-> 0] \o <<Pow10(k % 4)>>

\* round(b / 10^k), ties to even, as an integer (the quotient must fit 31 bits)
BigRound(b, k) ==
    LET j    == k \div 4
        p    == Pow10(k % 4)
        x    == b \o [i \in 1..(j + 1 - Len(b)) |-> 0]
        low  == SubSeq(x, 1, j)
        high == SubSeq(x, j + 1, Len(x))
        q    == (high[1] \div p) + (Base \div p) * BigToInt(Tail(high))
        rem2 == BigMul(low \o <<high[1] % p>>, 2)
    IN  IF BigLess(rem2, BigPow10(k)) THEN q
        ELSE IF BigLess(BigPow10(k), rem2) THEN q + 1
        ELSE IF q % 2 = 0 THEN q ELSE q + 1

(***************************************************************************)
(* create_dataset(): lookup tables                                         *)
(***************************************************************************)
types == <<"Apartment", "Villa", "House", "Condo", "Townhouse">>

\* p of np.random.choice(types, p=...), in thousandths
type_p == <<300, 150, 250, 200, 100>>

\* list(locations.keys()), in insertion order
location_keys ==
    <<"New York", "Los Angeles", "Chicago", "Houston", "Phoenix",
      "Philadelphia", "San Antonio", "San Diego", "Dallas", "San Jose">>

\* locations[loc]: <<latitude, longitude>> in 1e-4 degrees
locations ==
    ("New York" :> <<407128, -740060>>) @@ ("Los Angeles" :> <<340522, -1182437>>) @@
    ("Chicago" :> <<418781, -876298>>) @@ ("Houston" :> <<297604, -953698>>) @@
    ("Phoenix" :> <<334484, -1120740>>) @@ ("Philadelphia" :> <<399526, -751652>>) @@
    ("San Antonio" :> <<294241, -984936>>) @@ ("San Diego" :> <<327157, -1171611>>) @@
    ("Dallas" :> <<327767, -967970>>) @@ ("San Jose" :> <<373382, -1218863>>)

\* area_ranges[ptype]: <<mean, standard deviation>> in square feet
area_ranges ==
    ("Apartment" :> <<900, 300>>) @@ ("Villa" :> <<3500, 800>>) @@
    ("House" :> <<2000, 500>>) @@ ("Condo" :> <<1200, 400>>) @@
    ("Townhouse" :> <<1800, 450>>)

\* price_per_sqft[loc], dollars per square foot
price_per_sqft ==
    ("New York" :> 800) @@ ("Los Angeles" :> 650) @@ ("Chicago" :> 350) @@
    ("Houston" :> 250) @@ ("Phoenix" :> 280) @@ ("Philadelphia" :> 320) @@
    ("San Antonio" :> 200) @@ ("San Diego" :> 600) @@ ("Dallas" :> 300) @@
    ("San Jose" :> 850)

\* type_mult[ptype], in hundredths
type_mult ==
    ("Apartment" :> 90) @@ ("Villa" :> 130) @@ ("House" :> 100) @@
    ("Condo" :> 95) @@ ("Townhouse" :> 105)

\* the choices and p of Parking_Spaces, p in thousandths
parking_choices == <<0, 1, 2, 3>>
parking_p == <<100, 400, 350, 150>>

(***************************************************************************)
(* numpy's global generator.  Its states lie on one cycle; seed(42) puts   *)
(* it at a fixed place of the cycle, position 0 of `stream`, and each call *)
(* of a distribution takes the next raw word.  A raw word carries the      *)
(* uniform deviate u in [0, 1) (thousandths) and the standard normal       *)
(* deviate z (1e-5) the generator derives at that place.                   *)
(***************************************************************************)
Word(u, z) == [u |-> u, z |-> z]

\* the raw word at position k (the cycle is cut to the length of stream)
Draw(k) == stream[(k % Len(stream)) + 1]

\* np.random.seed(42): the generator state no longer depends on its past
SeedKeep(r) == r
Seed(r) == 0

RECURSIVE CumSum(_)
CumSum(p) ==
    IF Len(p) <= 1 THEN p
    ELSE LET c == CumSum(SubSeq(p, 1, Len(p) - 1))
         IN  Append(c, c[Len(c)] + p[Len(p)])

\* np.random.choice(a, p=p): a[cdf.searchsorted(u, side='right')]
ChoiceP(a, p, w) ==
    LET cdf == CumSum(p)
    IN  a[Cardinality({k \in 1..Len(cdf) : cdf[k] <= w.u}) + 1]

\* np.random.randint(low, high): an integer of [low, high)
Randint(low, high, w) == low + (w.u * (high - low)) \div 1000

\* np.random.choice(a): a[randint(0, len(a))]
Choice(a, w) == a[Randint(0, Len(a), w) + 1]

\* np.random.uniform(low, high) = low + (high - low) * u; low, high, result in 1e-4
Uniform(low, high, w) == low + ((high - low) * w.u) \div 1000

\* np.random.normal(mean, sd) = mean + sd * z; mean, sd in units, result in 1e-5
Normal(mean, sd, w) == mean * 100000 + sd * w.z

(***************************************************************************)
(* create_dataset(): one record                                            *)
(***************************************************************************)
DrawsPerRecord == 8

columns ==
    <<"Property_ID", "Type", "Price", "Area_SqFt", "Location", "Latitude",
      "Longitude", "Bedrooms", "Bathrooms", "Year_Built", "Parking_Spaces",
      "Price_Per_SqFt">>

\* f'PROP_{k:04d}': the prefix and at least four decimal digits
Property_ID(k) ==
    <<"PROP_", (k \div 1000) % 10, (k \div 100) % 10, (k \div 10) % 10, k % 10>>

\* area = max(500, np.random.normal(*area_ranges[ptype])), in 1e-5 sq ft
NormalArea(ptype, w) == Normal(area_ranges[ptype][1], area_ranges[ptype][2], w)
AreaNoClamp(ptype, w) == NormalArea(ptype, w)
Area(ptype, w) == Max(500 * 100000, NormalArea(ptype, w))

Abs(x) == IF x < 0 THEN -x ELSE x

\* price = area * price_per_sqft[loc] * type_mult[ptype] * uniform(0.85, 1.15):
\* the area it was formed from, price/area in 1e-6 dollars per sq ft, and the
\* exact product, sign and magnitude, in 1e-11 dollars
PriceNoMult(area, loc, ptype, w) ==
    [area |-> area,
     rate |-> price_per_sqft[loc] * 100 * Uniform(8500, 11500, w),
     sign |-> IF area < 0 THEN -1 ELSE 1,
     value |-> BigMul(BigMul(BigMul(ToBig(Abs(area)), price_per_sqft[loc]), 100),
                      Uniform(8500, 11500, w))]
Price(area, loc, ptype, w) ==
    [area |-> area,
     rate |-> price_per_sqft[loc] * type_mult[ptype] * Uniform(8500, 11500, w),
     sign |-> IF area < 0 THEN -1 ELSE 1,
     value |-> BigMul(BigMul(BigMul(ToBig(Abs(area)), price_per_sqft[loc]),
                             type_mult[ptype]),
                      Uniform(8500, 11500, w))]

\* round(price, 2), in cents
RoundPrice(price) == price.sign * BigRound(price.value, 9)

\* round(area, 2), in hundredths
RoundArea(area) == RoundHalfEven(area, 1000)

\* round(price/area, 2), in cents.  price is area times rate, so the quotient
\* by that same area is rate (1e-6 dollars per sq ft)
PricePerSqFtNoDivision(price, area) == RoundPrice(price)
PricePerSqFt(price, area) == RoundHalfEven(price.rate, 10000)

\* max(1, int(area / 500)) and max(1, int(area / 667))
Bedrooms(area) == Max(1, PyInt(area, 500 * 100000))
BathroomsNoFloor(area) == PyInt(area, 667 * 100000)
Bathrooms(area) == Max(1, PyInt(area, 667 * 100000))

\* round(locations[loc][k] + np.random.uniform(-0.5, 0.5), 4), in 1e-4 degrees
Coordinate(base, w) == RoundHalfEven((base + Uniform(-5000, 5000, w)) * 10, 10)

\* np.random.choice([0, 1, 2, 3], p=[0.1, 0.4, 0.35, 0.15])
ParkingSpacesRandint(w) == Randint(0, 5, w)
ParkingSpaces(w) == ChoiceP(parking_choices, parking_p, w)

\* the body of the loop for index i, the generator being at position k
Record(i, k) ==
    LET ptype == ChoiceP(types, type_p, Draw(k))
        loc   == Choice(location_keys, Draw(k + 1))
        area  == Area(ptype, Draw(k + 2))
        price == Price(area, loc, ptype, Draw(k + 3))
    IN  [Property_ID    |-> Property_ID(i + 1),
         Type           |-> ptype,
         Price          |-> RoundPrice(price),
         Area_SqFt      |-> RoundArea(area),
         Location       |-> loc,
         Latitude       |-> Coordinate(locations[loc][1], Draw(k + 4)),
         Longitude      |-> Coordinate(locations[loc][2], Draw(k + 5)),
         Bedrooms       |-> Bedrooms(area),
         Bathrooms      |-> Bathrooms(area),
         Year_Built     |-> Randint(1950, 2024, Draw(k + 6)),
         Parking_Spaces |-> ParkingSpaces(Draw(k + 7)),
         Price_Per_SqFt |-> PricePerSqFt(price, area)]

\* create_dataset() called with the generator in state r: the table returned
\* and the state the generator is left in
create_dataset(r) ==
    LET s == Seed(r)
    IN  [table |-> [columns |-> columns,
                    rows    |-> [i \in 1..n |-> Record(i - 1, s + DrawsPerRecord * (i - 1))]],
         rng   |-> s + DrawsPerRecord * n]

(***************************************************************************)
(* DataFrame operations the analyses use                                   *)
(***************************************************************************)
\* df.to_csv(path, index=False): the header line and one line per row, the
\* values in column order
to_csv(d) ==
    [header |-> d.columns,
     rows   |-> [i \in 1..Len(d.rows) |->
                    [j \in 1..Len(d.columns) |-> d.rows[i][d.columns[j]]]]]

\* pd.cut(price, bins=[0, 500000, 1000000, 2000000, inf], labels=...), price
\* in cents; the bins are open on the left and closed on the right
PriceRange(price) ==
    IF price <= 0 THEN "NaN"
    ELSE IF price <= 50000000 THEN "<$500K"
    ELSE IF price <= 100000000 THEN "$500K-$1M"
    ELSE IF price <= 200000000 THEN "$1M-$2M"
    ELSE ">$2M"

\* df['Price_Range'] = pd.cut(df['Price'], ...): assignment of a column to
\* the frame the caller passed in
AssignPriceRange(d) ==
    [columns |-> IF \E j \in 1..Len(d.columns) : d.columns[j] = "Price_Range"
                 THEN d.columns ELSE Append(d.columns, "Price_Range"),
     rows    |-> [i \in 1..Len(d.rows) |->
                    [c \in DOMAIN d.rows[i] \cup {"Price_Range"} |->
                        IF c = "Price_Range" THEN PriceRange(d.rows[i].Price)
                        ELSE d.rows[i][c]]]]

\* the Type keys in the order groupby sorts them
sorted_types == <<"Apartment", "Condo", "House", "Townhouse", "Villa">>

RECURSIVE SumColumn(_, _)
SumColumn(rows, c) ==
    IF rows = <<>> THEN <<0>>
    ELSE BigAdd(ToBig(rows[1][c]), SumColumn(Tail(rows), c))

\* df.groupby('Type').agg({'Price': 'sum', 'Property_ID': 'count'}) with the
\* columns renamed Type, Total_Value, Count: one line per Type present
TypeSumOfRate(d) ==
    LET present(t) == \E i \in 1..Len(d.rows) : d.rows[i].Type = t
        keys == SelectSeq(sorted_types, present)
    IN  [g \in 1..Len(keys) |->
            LET member(r) == r.Type = keys[g]
                group == SelectSeq(d.rows, member)
            IN  [Type        |-> keys[g],
                 Total_Value |-> SumColumn(group, "Price_Per_SqFt"),
                 Count       |-> Len(group)]]
type_sum(d) ==
    LET present(t) == \E i \in 1..Len(d.rows) : d.rows[i].Type = t
        keys == SelectSeq(sorted_types, present)
    IN  [g \in 1..Len(keys) |->
            LET member(r) == r.Type = keys[g]
                group == SelectSeq(d.rows, member)
            IN  [Type        |-> keys[g],
                 Total_Value |-> SumColumn(group, "Price"),
                 Count       |-> Len(group)]]

(***************************************************************************)
(* Files                                                                   *)
(***************************************************************************)
\* the path f'output/{stem}.{ext}'
Path(stem, ext) == [dir |-> "output", stem |-> stem, ext |-> ext]

\* save_fig(name): the path plt.savefig writes the current figure to
save_fig_fixed(name) == Path("name", "png")
save_fig(name) == Path(name, "png")

File(path, content) == [path |-> path, content |-> content]

\* a rendered chart, map or dashboard; the rendering itself is not modelled
Rendered(title) == [title |-> title]

\* the files each step writes, in the order it writes them
main_files(d) == <<File(Path("real_estate_dataset", "csv"), to_csv(d))>>

co1_files(d) ==
    <<File(save_fig("CO1_attributes_distribution"), Rendered("CO1 numerical")),
      File(save_fig("CO1_categorical_attributes"), Rendered("CO1 categorical"))>>

co2_files(d) ==
    <<File(save_fig("CO2_scatter_plot"), Rendered("CO2 scatter")),
      File(save_fig("CO2_violin_plots"), Rendered("CO2 violin")),
      File(save_fig("CO2_comprehensive_analysis"), Rendered("CO2 comprehensive"))>>

co3_files(d) ==
    <<File(Path("CO3_treemap_count", "png"), Rendered("CO3 count")),
      File(Path("CO3_treemap_value", "png"), Rendered("CO3 value")),
      File(save_fig("CO3_treemap_squarify"),
           [title |-> "CO3 squarify", type_sum |-> type_sum(d)]),
      File(Path("CO3_treemap_multilevel", "png"), Rendered("CO3 multilevel"))>>

\* the number of files co3_analysis has written when it assigns Price_Range
co3_assign_after == 3

co4_files(d) ==
    <<File(Path("CO4_map_markers", "html"), Rendered("CO4 markers")),
      File(Path("CO4_map_heatmap", "html"), Rendered("CO4 heatmap")),
      File(Path("CO4_map_circles", "html"), Rendered("CO4 circles")),
      File(save_fig("CO4_static_maps"), Rendered("CO4 static")),
      File(Path("CO4_interactive_map", "html"), Rendered("CO4 interactive"))>>

co5_files(d) ==
    <<File(Path("real_estate_data_for_powerbi", "csv"), to_csv(d)),
      File(Path("CO5_interactive_dashboard", "html"), Rendered("CO5 dashboard")),
      File(Path("CO5_price_analyzer_interactive", "html"), Rendered("CO5 analyzer")),
      File(Path("CO5_PowerBI_Instructions", "txt"), Rendered("Power BI Setup Instructions")),
      File(save_fig("CO5_summary_statistics"), Rendered("CO5 summary"))>>

(***************************************************************************)
(* The raw streams considered.  What the generator yields after seed(42)   *)
(* is fixed but not derived here: Init picks it among the streams built    *)
(* from the draws of one record below.                                     *)
(***************************************************************************)
\* the eight raw words one record takes: the deviates behind Type, Location,
\* area, price factor, the two coordinates, Year_Built and Parking_Spaces
Profile(tu, lu, z, fu, ju, yu, pu) ==
    <<Word(tu, 0), Word(lu, 0), Word(500, z), Word(fu, 0),
      Word(ju, 0), Word(999 - ju, 0), Word(yu, 0), Word(pu, 0)>>

\* u at the lower edge of each Type's share of [0, 1): Apartment, Villa,
\* House, Condo, Townhouse
TypeDraw == <<0, 300, 450, 700, 900>>

\* z five deviations below the mean, and z putting an Apartment's area at
\* 999.996 and at 1333.998 square feet
FarBelow == -5 * 100000
JustBelow1000 == (99999600 - 900 * 100000) \div 300
JustBelow1334 == (133399800 - 900 * 100000) \div 300

\* u for Location k (0..9) is k/10; u = 0 gives the price factor 0.85,
\* u = 0.999 gives 1.1497
Profiles ==
    {Profile(TypeDraw[1], 0, JustBelow1000, 0, 0, 0, 0),
     Profile(TypeDraw[1], 100, JustBelow1334, 0, 999, 999, 100),
     Profile(TypeDraw[1], 200, FarBelow, 999, 500, 500, 500),
     Profile(TypeDraw[1], 300, 0, 500, 250, 250, 850),
     Profile(TypeDraw[2], 400, 0, 0, 0, 999, 0),
     Profile(TypeDraw[2], 900, JustBelow1334, 999, 999, 0, 850),
     Profile(TypeDraw[3], 500, 0, 500, 500, 500, 100),
     Profile(TypeDraw[3], 600, FarBelow, 0, 0, 0, 500),
     Profile(TypeDraw[4], 700, JustBelow1000, 999, 999, 999, 100),
     Profile(TypeDraw[4], 800, 0, 0, 250, 250, 500),
     Profile(TypeDraw[5], 0, 0, 500, 500, 500, 850),
     Profile(TypeDraw[5], 900, FarBelow, 999, 0, 0, 0)}

FewProfiles ==
    {Profile(TypeDraw[1], 0, JustBelow1000, 0, 0, 0, 0),
     Profile(TypeDraw[2], 900, 0, 999, 999, 999, 100),
     Profile(TypeDraw[3], 300, 0, 500, 500, 500, 500),
     Profile(TypeDraw[4], 700, FarBelow, 500, 0, 0, 850),
     Profile(TypeDraw[5], 500, JustBelow1334, 0, 500, 999, 100),
     Profile(TypeDraw[3], 0, 0, 0, 0, 0, 0)}

Streams(profiles) ==
    {[k \in 1..(DrawsPerRecord * n) |->
         f[((k - 1) \div DrawsPerRecord) + 1][((k - 1) % DrawsPerRecord) + 1]] :
     f \in [1..n -> profiles]}

\* the frame main() holds before create_dataset() has returned
NoFrame == [columns |-> <<>>, rows |-> <<>>]

(***************************************************************************)
(* One run of the script                                                   *)
(***************************************************************************)
Init ==
    /\ stream \in Streams(FewProfiles)
    /\ rng \in 0..MaxConsumed
    /\ dirExists \in BOOLEAN
    /\ pc = "import"
    /\ df = NoFrame
    /\ output = <<>>
    /\ returned = <<>>

\* os.makedirs('output', exist_ok=True), at import
makedirs ==
    /\ pc = "import"
    /\ dirExists' = TRUE
    /\ pc' = "create"
    /\ UNCHANGED <<stream, rng, df, output, returned>>

\* os.makedirs raises (the directory cannot be created)
makedirs_raises ==
    /\ pc = "import"
    /\ ~dirExists
    /\ pc' = "failed"
    /\ UNCHANGED <<stream, rng, dirExists, df, output, returned>>

\* main: df = create_dataset()
main_create ==
    /\ pc = "create"
    /\ LET c == create_dataset(rng)
       IN  /\ df' = c.table
           /\ rng' = c.rng
           /\ returned' = Append(returned, [at |-> rng, table |-> c.table])
    /\ pc' = "to_csv"
    /\ UNCHANGED <<stream, dirExists, output>>

\* the positions of a run, in the order the script goes through them
step_order ==
    <<"import", "create", "to_csv", "co1", "co2", "co3", "co4", "co5", "done">>

\* the position that follows p
After(p) ==
    step_order[(CHOOSE k \in 1..(Len(step_order) - 1) : step_order[k] = p) + 1]

\* a step that writes all its files and leaves the frame as newdf
Step(here, next, files, newdf) ==
    /\ pc = here
    /\ dirExists
    /\ output' = output \o files
    /\ df' = newdf
    /\ pc' = next
    /\ UNCHANGED <<stream, rng, dirExists, returned>>

RaisesSwallowed(here, files, assignedAfter, newdf) ==
    /\ pc = here
    /\ \E k \in 0..(Len(files) - 1) :
          /\ output' = output \o SubSeq(files, 1, k)
          /\ df' = IF k >= assignedAfter THEN newdf ELSE df
    /\ pc' = After(here)
    /\ UNCHANGED <<stream, rng, dirExists, returned>>

\* a step that raises at the write after its first k files; the frame is
\* newdf if the step had assigned to it by then
Raises(here, files, assignedAfter, newdf) ==
    /\ pc = here
    /\ \E k \in 0..(Len(files) - 1) :
          /\ output' = output \o SubSeq(files, 1, k)
          /\ df' = IF k >= assignedAfter THEN newdf ELSE df
    /\ pc' = "failed"
    /\ UNCHANGED <<stream, rng, dirExists, returned>>

\* main: df.to_csv('output/real_estate_dataset.csv', index=False)
main_to_csv == Step("to_csv", "co1", main_files(df), df)
main_to_csv_raises == Raises("to_csv", main_files(df), 1, df)

co1_analysis == Step("co1", "co2", co1_files(df), df)
co1_raises == Raises("co1", co1_files(df), Len(co1_files(df)), df)

co2_analysis == Step("co2", "co3", co2_files(df), df)
co2_raises == Raises("co2", co2_files(df), Len(co2_files(df)), df)

\* co3_analysis assigns df['Price_Range'] before its last treemap
co3_analysis == Step("co3", "co4", co3_files(df), AssignPriceRange(df))
co3_raises == Raises("co3", co3_files(df), co3_assign_after, AssignPriceRange(df))

co4_analysis == Step("co4", "co5", co4_files(df), df)
co4_raises == Raises("co4", co4_files(df), Len(co4_files(df)), df)

co5_analysis == Step("co5", "done", co5_files(df), df)
co5_raises == Raises("co5", co5_files(df), Len(co5_files(df)), df)

Next ==
    \/ makedirs
    \/ makedirs_raises
    \/ main_create
    \/ main_to_csv
    \/ main_to_csv_raises
    \/ co1_analysis
    \/ co1_raises
    \/ co2_analysis
    \/ co2_raises
    \/ co3_analysis
    \/ co3_raises
    \/ co4_analysis
    \/ co4_raises
    \/ co5_analysis
    \/ co5_raises

Spec == Init /\ [][Next]_vars

(***************************************************************************)
(* create_dataset() called repeatedly, other code drawing from the global  *)
(* generator in between                                                    *)
(***************************************************************************)
InitCalls ==
    /\ stream \in Streams(FewProfiles)
    /\ rng = 0
    /\ dirExists = FALSE
    /\ pc = "caller"
    /\ df = NoFrame
    /\ output = <<>>
    /\ returned = <<>>

\* a call of create_dataset() by other code
CreateDatasetCalled ==
    /\ LET c == create_dataset(rng)
       IN  /\ rng' = c.rng
           /\ returned' = Append(returned, [at |-> rng, table |-> c.table])
    /\ UNCHANGED <<stream, dirExists, pc, df, output>>

Call ==
    /\ Len(returned) < MaxCalls
    /\ CreateDatasetCalled

\* other code takes one raw word from the global generator
Consume ==
    /\ rng % (DrawsPerRecord * n) < MaxConsumed
    /\ rng' = rng + 1
    /\ UNCHANGED <<stream, dirExists, pc, df, output, returned>>

NextCalls == Call \/ Consume

SpecCalls == InitCalls /\ [][NextCalls]_vars

(***************************************************************************)
(* create_dataset() called once, over the wider set of raw streams         *)
(***************************************************************************)
InitGen ==
    /\ stream \in Streams(Profiles)
    /\ rng \in 0..MaxConsumed
    /\ dirExists = FALSE
    /\ pc = "caller"
    /\ df = NoFrame
    /\ output = <<>>
    /\ returned = <<>>

Generate ==
    /\ returned = <<>>
    /\ CreateDatasetCalled

NextGen == Generate

SpecGen == InitGen /\ [][NextGen]_vars

(***************************************************************************)
(* Properties                                                              *)
(***************************************************************************)
\* every record of every table create_dataset() has returned
Records == {c.table.rows[i] : c \in {returned[k] : k \in 1..Len(returned)}, i \in 1..n}

\* the raw word behind draw d (0..7) of record i (1..n) after seed(42)
DrawOf(i, d) == Draw(DrawsPerRecord * (i - 1) + d)

\* C1: any two calls of create_dataset() return the same table, whatever the
\* state of the global generator each call was made at.
C1_SameTable ==
    \A i, j \in 1..Len(returned) : returned[i].table = returned[j].table

\* two calls were made, at different generator states, neither at the state
\* seed(42) gives
C1_Witness ==
    /\ Len(returned) >= 2
    /\ returned[1].at # returned[2].at
    /\ returned[1].at # 0
    /\ returned[2].at % DrawsPerRecord # 0

RateTimesArea(r) == BigTimes(ToBig(r.Price_Per_SqFt), ToBig(r.Area_SqFt))
PriceE4(r) == BigMul(ToBig(r.Price), 100)

Band(r, a, c) ==
    BigMul(BigMul(ToBig(a), price_per_sqft[r.Location] * type_mult[r.Type]), c)

\* the stored Price of a record in 1e-7 dollars
PriceE7(r) == BigMul(ToBig(r.Price), 100000)

C8_AreaAtLeast500 == \A r \in Records : r.Area_SqFt >= 50000

\* a call has returned a record whose normal draw was negative
C8_Witness ==
    /\ returned # <<>>
    /\ \E i \in 1..n :
          /\ NormalArea(returned[1].table.rows[i].Type, DrawOf(i, 2)) < 0
          /\ returned[1].table.rows[i].Area_SqFt = 50000

\* C9: in every record, Parking_Spaces is one of 0, 1, 2, 3 and Type is one
\* of Apartment, Villa, House, Condo, Townhouse.
C9_ParkingAndType ==
    \A r \in Records :
        /\ r.Parking_Spaces \in {0, 1, 2, 3}
        /\ r.Type \in {"Apartment", "Villa", "House", "Condo", "Townhouse"}

\* records with the last choice of each list have been returned
C9_Witness ==
    /\ \E r \in Records : r.Parking_Spaces = 3
    /\ \E r \in Records : r.Type = "Townhouse"

\* the files written so far whose path has extension e
Written(e) == {output[k].path : k \in {j \in 1..Len(output) : output[j].path.ext = e}}

\* the content last written to the path with stem s and extension e
Content(s, e) ==
    LET ks == {k \in 1..Len(output) : output[k].path = Path(s, e)}
    IN  output[CHOOSE k \in ks : \A j \in ks : j <= k].content

HasFile(s, e) == \E k \in 1..Len(output) : output[k].path = Path(s, e)

\* C4: once create_dataset() has returned, the table main() holds stays the
\* table that was returned, through every later step.
C4_TableUnchanged ==
    returned # <<>> => df = returned[1].table

\* C5: after a complete run, both CSV exports have the twelve fields of
\* create_dataset() as their header and one row per record, and the second
\* export equals the first.
C5_ExportsAgree ==
    pc = "done" =>
        /\ Content("real_estate_dataset", "csv").header = columns
        /\ Content("real_estate_data_for_powerbi", "csv").header = columns
        /\ Len(Content("real_estate_dataset", "csv").rows) = n
        /\ Len(Content("real_estate_data_for_powerbi", "csv").rows) = n
        /\ Content("real_estate_data_for_powerbi", "csv") = Content("real_estate_dataset", "csv")

RECURSIVE SumTotals(_)
SumTotals(groups) ==
    IF groups = <<>> THEN <<0>>
    ELSE BigAdd(groups[1].Total_Value, SumTotals(Tail(groups)))

RECURSIVE SumCounts(_)
SumCounts(groups) ==
    IF groups = <<>> THEN 0 ELSE groups[1].Count + SumCounts(Tail(groups))

\* C7: the per-Type sums of Price that co3_analysis computes add up to the
\* sum of Price over all records of the table create_dataset() returned, and
\* the per-Type counts add up to the number of records.
C7_GroupsCoverTable ==
    HasFile("CO3_treemap_squarify", "png") =>
        LET groups == Content("CO3_treemap_squarify", "png").type_sum
        IN  /\ Normalize(SumTotals(groups)) = Normalize(SumColumn(returned[1].table.rows, "Price"))
            /\ SumCounts(groups) = Len(returned[1].table.rows)

\* co3_analysis has summed a table that holds more than one Type
C7_Witness ==
    /\ HasFile("CO3_treemap_squarify", "png")
    /\ Len(Content("CO3_treemap_squarify", "png").type_sum) >= 2

\* C10: no write goes to a path written before, and after a complete run the
\* files written are 2 CSV, 11 PNG, 6 HTML and 1 TXT files.
C10_OutputFiles ==
    /\ \A i, j \in 1..Len(output) : output[i].path = output[j].path => i = j
    /\ pc = "done" =>
          /\ Cardinality(Written("csv")) = 2
          /\ Cardinality(Written("png")) = 11
          /\ Cardinality(Written("html")) = 6
          /\ Cardinality(Written("txt")) = 1
          /\ Len(output) = 20

\* a run has completed
C10_Witness == pc = "done" /\ Len(output) > 0

\* the paths a complete run writes, in the order it writes them
RunFiles ==
    main_files(df) \o co1_files(df) \o co2_files(df) \o co3_files(df)
    \o co4_files(df) \o co5_files(df)

\* the number of files a run has written when it is at position p
WrittenBefore(p) ==
    CASE p \in {"import", "create", "to_csv"} -> 0
      [] p = "co1" -> Len(main_files(df))
      [] p = "co2" -> (Len(main_files(df)) + Len(co1_files(df)))
      [] p = "co3" -> (Len(main_files(df)) + Len(co1_files(df))) + Len(co2_files(df))
      [] p = "co4" -> (Len(main_files(df)) + Len(co1_files(df))) + Len(co2_files(df)) + Len(co3_files(df))
      [] p = "co5" -> (Len(main_files(df)) + Len(co1_files(df))) + Len(co2_files(df)) + Len(co3_files(df))
                      + Len(co4_files(df))
      [] p = "done" -> Len(RunFiles)

\* what holds at every moment of a run
C11_Order ==
    /\ output # <<>> => dirExists
    /\ Len(returned) <= 1
    /\ pc \in {"import", "create"} => returned = <<>> /\ df = NoFrame
    /\ pc \notin {"import", "create", "failed"} => Len(returned) = 1
    /\ Len(output) <= Len(RunFiles)
    /\ \A k \in 1..Len(output) : output[k].path = RunFiles[k].path
    /\ pc # "failed" => Len(output) = WrittenBefore(pc)

\* what holds of every step of a run
C11_Step ==
    pc' # pc =>
        /\ pc \notin {"done", "failed"}
        /\ pc' \in {After(pc), "failed"}
        /\ pc' = "failed" => returned' = returned
        /\ Len(output') >= Len(output)

\* C11: a run goes through its steps in one fixed order: the directory
\* exists before any file is written; the dataset is generated once and its
\* CSV is the first file written; CO1 .. CO5 follow in that order, each once
\* and each after the one before it has finished; after a failure no step
\* runs, none is retried.
C11_FixedOrder == []C11_Order /\ [][C11_Step]_vars

\* a run has failed in an analysis after earlier steps had written files
C11_Witness == pc = "failed" /\ Len(output) > Len(main_files(df)) + Len(co1_files(df))

\* the area of record i of the first table returned, before round(area, 2)
UnroundedArea(i) == Area(returned[1].table.rows[i].Type, DrawOf(i, 2))

\* C12: in every record Bedrooms >= Bathrooms >= 1; Bedrooms is int(area/500)
\* itself, its floor of 1 never in effect; Bathrooms is 1 by its floor
\* whenever the area is below 667.
C12_RoomsOrdered ==
    returned # <<>> =>
        \A i \in 1..n :
            LET r == returned[1].table.rows[i]
                a == UnroundedArea(i)
            IN  /\ r.Bedrooms >= r.Bathrooms
                /\ r.Bathrooms >= 1
                /\ PyInt(a, 500 * 100000) >= 1
                /\ r.Bedrooms = PyInt(a, 500 * 100000)
                /\ a < 667 * 100000 => PyInt(a, 667 * 100000) = 0 /\ r.Bathrooms = 1
                /\ r.Area_SqFt < 66700 => r.Bathrooms = 1

\* a record with an area below 667 has been returned, and one with more
\* bedrooms than bathrooms
C12_Witness ==
    /\ returned # <<>>
    /\ \E i \in 1..n : UnroundedArea(i) < 667 * 100000
                       /\ returned[1].table.rows[i].Bathrooms = 1
    /\ \E r \in Records : r.Bedrooms > r.Bathrooms

====
